---- MODULE Spec2Model ----
(***************************************************************************)
(* Task Manager (mini_projects/Task_Manager/task-manager/src/App.js and    *)
(* its components TaskInput, TaskList, TaskItem).                          *)
(*                                                                         *)
(* The state is the four useState cells of App, the localStorage entry     *)
(* 'tasks', and the wall clock read by Date.now().  A text is a sequence   *)
(* of one-character strings; the stored value is the character sequence    *)
(* JSON.stringify produces, and hydration parses that sequence again.      *)
(*                                                                         *)
(* A click or keystroke is one atomic step: React runs the handler, the    *)
(* re-render and the effects of a discrete event before the next event is  *)
(* dispatched.  The mount is modelled effect by effect, because there the  *)
(* state update queued by loadTasks is committed only after both mount     *)
(* effects have run.                                                       *)
(***************************************************************************)
EXTENDS Integers, Sequences, FiniteSets, TLC

VARIABLES task, tasks, isEditing, currentTaskId, storage, clock, pc, pending,
          last, editPos, snap, wrote, script, replaced

(* last.op names the step just taken and last.arg the input of the latest   *)
(* user event (for a reload: the list the closed session ended with); the   *)
(* mount steps and the clock carry last.arg on.  editPos is the position of *)
(* the item whose Edit button opened the edit session, as long as only      *)
(* draft edits have followed; 0 otherwise.  snap is the list the handlers   *)
(* of the latest render read, wrote tells whether the step just taken called *)
(* localStorage.setItem, and script follows the scenario of section 8.       *)
(* replaced is the edit session the startEditTask just taken found (mode,   *)
(* target and draft before the call); after any other step it is NoSession. *)
vars == <<task, tasks, isEditing, currentTaskId, storage, clock, pc, pending,
          last, editPos, snap, wrote, script, replaced>>

(* ---- bounds of the model ---- *)
MaxTasks == 2

MaxClock == 2

(* The texts a user types: empty, whitespace only, a plain letter, and a   *)
(* text holding the characters JSON has to escape.                         *)
Texts == { <<>>, <<" ">>, <<"a">>, <<"\"", "\\">> }

(* useState(null), App.js line 22; Date.now() is at least 1 here *)
Null == 0

(* localStorage.getItem of a key that was never set *)
Absent == <<>>

(* ---- JSON.stringify ---- *)
DigitChars == <<"0", "1", "2", "3", "4", "5", "6", "7", "8", "9">>

RECURSIVE NumberToString(_)
NumberToString(n) ==
    IF n < 10 THEN <<DigitChars[n + 1]>>
    ELSE NumberToString(n \div 10) \o <<DigitChars[(n % 10) + 1]>>

RECURSIVE EscapeString(_)
EscapeString(s) ==
    IF s = <<>> THEN <<>>
    ELSE (IF Head(s) \in {"\"", "\\"} THEN <<"\\", Head(s)>> ELSE <<Head(s)>>)
         \o EscapeString(Tail(s))

QuoteString(s) == <<"\"">> \o EscapeString(s) \o <<"\"">>

(* every stored task carries a schema version *)
StringifyTask_versioned(t) ==
    <<"{", "\"", "i", "d", "\"", ":">> \o NumberToString(t.id)
    \o <<",", "\"", "v", "a", "l", "u", "e", "\"", ":">> \o QuoteString(t.value)
    \o <<",", "\"", "v", "\"", ":", "1", "}">>

StringifyTask(t) ==
    <<"{", "\"", "i", "d", "\"", ":">> \o NumberToString(t.id)
    \o <<",", "\"", "v", "a", "l", "u", "e", "\"", ":">> \o QuoteString(t.value)
    \o <<"}">>

RECURSIVE StringifyElements(_)
StringifyElements(ts) ==
    IF ts = <<>> THEN <<>>
    ELSE IF Len(ts) = 1 THEN StringifyTask(ts[1])
    ELSE StringifyTask(ts[1]) \o <<",">> \o StringifyElements(Tail(ts))

JSONstringify(ts) == <<"[">> \o StringifyElements(ts) \o <<"]">>

(* ---- JSON.parse ---- *)
DigitValue(c) == CHOOSE d \in 0..9 : DigitChars[d + 1] = c

IsDigit(c) == \E d \in 0..9 : DigitChars[d + 1] = c

RECURSIVE ReadString(_, _, _)
ReadString(s, p, acc) ==
    IF s[p] = "\"" THEN [val |-> acc, next |-> p + 1]
    ELSE IF s[p] = "\\" THEN ReadString(s, p + 2, Append(acc, s[p + 1]))
    ELSE ReadString(s, p + 1, Append(acc, s[p]))

RECURSIVE ReadNumber(_, _, _)
ReadNumber(s, p, acc) ==
    IF p <= Len(s) /\ IsDigit(s[p])
    THEN ReadNumber(s, p + 1, acc * 10 + DigitValue(s[p]))
    ELSE [val |-> acc, next |-> p]

ReadValue(s, p) ==
    IF s[p] = "\"" THEN ReadString(s, p + 1, <<>>) ELSE ReadNumber(s, p, 0)

KeyName(k) ==
    IF k = <<"i", "d">> THEN "id"
    ELSE IF k = <<"v", "a", "l", "u", "e">> THEN "value"
    ELSE "other"

RECURSIVE ReadMembers(_, _)
ReadMembers(s, p) ==
    LET k == ReadString(s, p + 1, <<>>)
        v == ReadValue(s, k.next + 1)
        m == (KeyName(k.val) :> v.val)
    IN  IF s[v.next] = ","
        THEN LET rest == ReadMembers(s, v.next + 1)
             IN  [val |-> m @@ rest.val, next |-> rest.next]
        ELSE [val |-> m, next |-> v.next + 1]

ReadObject(s, p) ==
    LET o == ReadMembers(s, p + 1)
    IN  [val |-> [id |-> o.val["id"], value |-> o.val["value"]], next |-> o.next]

RECURSIVE ReadElements(_, _)
ReadElements(s, p) ==
    LET o == ReadObject(s, p)
    IN  IF s[o.next] = "," THEN <<o.val>> \o ReadElements(s, o.next + 1)
        ELSE <<o.val>>

JSONparse(s) == IF s[2] = "]" THEN <<>> ELSE ReadElements(s, 2)

(* ---- the list expressions of the handlers ---- *)
(* the emptiness test written as "length >= 0" *)
HasText_any(text) == Len(text) >= 0

(* the emptiness test applied to the trimmed draft *)
HasText_trim(text) == \E i \in 1..Len(text) : text[i] # " "

HasText(text) == Len(text) > 0

(* the new task put in front of the list *)
AppendTask_prepend(ts, now, text) == <<[id |-> now, value |-> text]>> \o ts

AppendTask(ts, now, text) == Append(ts, [id |-> now, value |-> text])

(* the edited task is taken out and put back at the end of the list *)
MapUpdate_toEnd(ts, id, text) ==
    IF \E i \in 1..Len(ts) : ts[i].id = id
    THEN SelectSeq(ts, LAMBDA t : t.id # id) \o <<[id |-> id, value |-> text]>>
    ELSE ts

(* an update that inserts the task when no task has the id *)
MapUpdate_upsert(ts, id, text) ==
    IF \E i \in 1..Len(ts) : ts[i].id = id
    THEN [i \in 1..Len(ts) |->
            IF ts[i].id = id THEN [id |-> ts[i].id, value |-> text] ELSE ts[i]]
    ELSE Append(ts, [id |-> id, value |-> text])

MapUpdate(ts, id, text) ==
    [i \in 1..Len(ts) |->
        IF ts[i].id = id THEN [id |-> ts[i].id, value |-> text] ELSE ts[i]]

(* the filter predicate inverted *)
FilterOut_keep(ts, taskId) == SelectSeq(ts, LAMBDA t : t.id = taskId)

FilterOut(ts, taskId) == SelectSeq(ts, LAMBDA t : t.id # taskId)

(* saveTasks memoized without its dependency: it writes the first render's list *)
saveTasks_stale(ts) == <<JSONstringify(<<>>)>>

saveTasks(ts) == <<JSONstringify(ts)>>

Truthy(savedTasks) == savedTasks # Absent /\ Len(savedTasks[1]) > 0

(* loadTasks reads the slot and forgets to call setTasks *)
loadTasks_noop(savedTasks) == <<>>

loadTasks(savedTasks) ==
    IF Truthy(savedTasks) THEN <<JSONparse(savedTasks[1])>> ELSE <<>>

(* ---- the list a handler reads ---- *)
(* the handlers memoized with an empty dependency list: they keep the list *)
(* of the first render                                                     *)
Closure_stale(ts) == <<>>

(* addTask, updateTask and removeTask are created anew by every render and *)
(* read the tasks of that render                                           *)
Closure(ts) == ts

(* ---- the scenario of the spec's section 8, followed event by event ---- *)
BuyMilk == <<"B", "u", "y", " ", "m", "i", "l", "k">>

WalkDog == <<"W", "a", "l", "k", " ", "d", "o", "g">>

BuyOatMilk == <<"B", "u", "y", " ", "o", "a", "t", " ", "m", "i", "l", "k">>

ScenarioTexts == {BuyMilk, WalkDog, BuyOatMilk}

OffScript == [step |-> -1, first |-> Null]

(* script.step = k: the user events so far are exactly the first k events  *)
(* of the scenario; script.first is the id the first task was given.       *)
ScriptStep(sc, op, arg, now) ==
    IF sc.step = 0 /\ op = "setTask" /\ arg = BuyMilk
        THEN [step |-> 1, first |-> Null]
    ELSE IF sc.step = 1 /\ op = "addTask" THEN [step |-> 2, first |-> now]
    ELSE IF sc.step = 2 /\ op = "setTask" /\ arg = WalkDog
        THEN [step |-> 3, first |-> sc.first]
    ELSE IF sc.step = 3 /\ op = "addTask" THEN [step |-> 4, first |-> sc.first]
    ELSE IF sc.step = 4 /\ op = "startEditTask" /\ arg = 1
        THEN [step |-> 5, first |-> sc.first]
    ELSE IF sc.step = 5 /\ op = "setTask" /\ arg = BuyOatMilk
        THEN [step |-> 6, first |-> sc.first]
    ELSE IF sc.step = 6 /\ op = "updateTask" THEN [step |-> 7, first |-> sc.first]
    ELSE IF sc.step = 7 /\ op = "removeTask" /\ arg = 2
        THEN [step |-> 8, first |-> sc.first]
    ELSE OffScript

(* no startEditTask has just been taken *)
NoSession == [on |-> FALSE, target |-> Null, draft |-> <<>>]

(* ---- first render of App: the useState initial values ---- *)
Init ==
    /\ task = <<>>
    /\ tasks = <<>>
    /\ isEditing = FALSE
    /\ currentTaskId = Null
    /\ storage = Absent
    /\ clock = 1
    /\ pc = "loadEffect"
    /\ pending = <<>>
    /\ last = [op |-> "mount", arg |-> <<>>]
    /\ editPos = 0
    /\ snap = Closure(<<>>)
    /\ wrote = FALSE
    /\ replaced = NoSession
    /\ script = [step |-> 0, first |-> Null]

(* ---- mount: useEffect(() => loadTasks(), []) ---- *)
LoadEffect ==
    /\ pc = "loadEffect"
    /\ pending' = loadTasks(storage)
    /\ pc' = "saveEffect"
    /\ last' = [op |-> "loadTasks", arg |-> last.arg]
    /\ wrote' = FALSE
    /\ replaced' = NoSession
    /\ UNCHANGED <<task, tasks, isEditing, currentTaskId, storage, clock, editPos,
                   snap, script>>

(* ---- useEffect(() => saveTasks(), [tasks, saveTasks]) ---- *)
SaveEffect ==
    /\ pc = "saveEffect"
    /\ storage' = saveTasks(tasks)
    /\ pc' = IF pending # <<>> THEN "render" ELSE "idle"
    /\ last' = [op |-> "saveTasks", arg |-> last.arg]
    /\ wrote' = TRUE
    /\ replaced' = NoSession
    /\ UNCHANGED <<task, tasks, isEditing, currentTaskId, clock, pending, editPos,
                   snap, script>>

(* the re-render loses the queued update *)
Render_lost ==
    /\ pc = "render"
    /\ tasks' = tasks
    /\ snap' = Closure(tasks')
    /\ pending' = <<>>
    /\ pc' = "saveEffect"
    /\ last' = [op |-> "render", arg |-> last.arg]
    /\ wrote' = FALSE
    /\ replaced' = NoSession
    /\ UNCHANGED <<task, isEditing, currentTaskId, storage, clock, editPos, script>>

(* ---- the re-render that commits the setTasks queued by loadTasks ---- *)
Render ==
    /\ pc = "render"
    /\ tasks' = pending[1]
    /\ snap' = Closure(tasks')
    /\ pending' = <<>>
    /\ pc' = "saveEffect"
    /\ last' = [op |-> "render", arg |-> last.arg]
    /\ wrote' = FALSE
    /\ replaced' = NoSession
    /\ UNCHANGED <<task, isEditing, currentTaskId, storage, clock, editPos, script>>

(* clearing the input also cancels the edit session *)
SetTask_cancel(s) ==
    /\ pc = "idle"
    /\ task' = s
    /\ isEditing' = IF s = <<>> THEN FALSE ELSE isEditing
    /\ last' = [op |-> "setTask", arg |-> s]
    /\ wrote' = FALSE
    /\ replaced' = NoSession
    /\ script' = ScriptStep(script, "setTask", s, clock)
    /\ UNCHANGED <<tasks, currentTaskId, storage, clock, pc, pending, editPos, snap>>

(* every keystroke also runs the save effect *)
SetTask_autosave(s) ==
    /\ pc = "idle"
    /\ task' = s
    /\ storage' = saveTasks(tasks)
    /\ last' = [op |-> "setTask", arg |-> s]
    /\ wrote' = TRUE
    /\ replaced' = NoSession
    /\ script' = ScriptStep(script, "setTask", s, clock)
    /\ UNCHANGED <<tasks, isEditing, currentTaskId, clock, pc, pending,
                   editPos, snap>>

(* ---- TaskInput: onChange={(e) => setTask(e.target.value)} ---- *)
SetTask(s) ==
    /\ pc = "idle"
    /\ task' = s
    /\ last' = [op |-> "setTask", arg |-> s]
    /\ wrote' = FALSE
    /\ replaced' = NoSession
    /\ script' = ScriptStep(script, "setTask", s, clock)
    /\ UNCHANGED <<tasks, isEditing, currentTaskId, storage, clock, pc, pending,
                   editPos, snap>>

(* addTask also closes the edit session *)
addTask_reset ==
    /\ pc = "idle"
    /\ HasText(task) => Len(snap) < MaxTasks
    /\ IF HasText(task)
       THEN /\ tasks' = AppendTask(snap, clock, task)
            /\ task' = <<>>
            /\ storage' = saveTasks(tasks')
       ELSE UNCHANGED <<tasks, task, storage>>
    /\ isEditing' = FALSE
    /\ currentTaskId' = Null
    /\ snap' = Closure(tasks')
    /\ wrote' = HasText(task)
    /\ replaced' = NoSession
    /\ last' = [op |-> "addTask", arg |-> task]
    /\ editPos' = 0
    /\ script' = ScriptStep(script, "addTask", task, clock)
    /\ UNCHANGED <<clock, pc, pending>>

(* ---- the handler addTask ---- *)
addTask ==
    /\ pc = "idle"
    /\ HasText(task) => Len(snap) < MaxTasks
    /\ IF HasText(task)
       THEN /\ tasks' = AppendTask(snap, clock, task)
            /\ task' = <<>>
            /\ storage' = saveTasks(tasks')
       ELSE UNCHANGED <<tasks, task, storage>>
    /\ snap' = Closure(tasks')
    /\ wrote' = HasText(task)
    /\ replaced' = NoSession
    /\ last' = [op |-> "addTask", arg |-> task]
    /\ editPos' = 0
    /\ script' = ScriptStep(script, "addTask", task, clock)
    /\ UNCHANGED <<isEditing, currentTaskId, clock, pc, pending>>

(* the Add button offered in both modes *)
AddTask_ungated == addTask

(* ---- the Add button, rendered when isEditing is false ---- *)
AddTask == ~isEditing /\ addTask

(* ---- the handler addTask called while the Update button is shown ---- *)
AddTaskInEdit == isEditing /\ addTask

(* the Edit button also re-creates the list: setTasks([...tasks]) *)
StartEditTask_copy(i) ==
    /\ pc = "idle"
    /\ i \in 1..Len(tasks)
    /\ task' = tasks[i].value
    /\ isEditing' = TRUE
    /\ currentTaskId' = tasks[i].id
    /\ last' = [op |-> "startEditTask", arg |-> i]
    /\ editPos' = i
    /\ storage' = saveTasks(tasks)
    /\ wrote' = TRUE
    /\ replaced' = [on |-> isEditing, target |-> currentTaskId, draft |-> task]
    /\ script' = ScriptStep(script, "startEditTask", i, clock)
    /\ UNCHANGED <<tasks, clock, pc, pending, snap>>

(* the Edit button first commits the draft of the session that is open *)
StartEditTask_commit(i) ==
    /\ pc = "idle"
    /\ i \in 1..Len(tasks)
    /\ tasks' = IF isEditing THEN MapUpdate(snap, currentTaskId, task) ELSE tasks
    /\ task' = tasks[i].value
    /\ isEditing' = TRUE
    /\ currentTaskId' = tasks[i].id
    /\ last' = [op |-> "startEditTask", arg |-> i]
    /\ editPos' = i
    /\ storage' = saveTasks(tasks')
    /\ snap' = Closure(tasks')
    /\ wrote' = isEditing
    /\ replaced' = [on |-> isEditing, target |-> currentTaskId, draft |-> task]
    /\ script' = ScriptStep(script, "startEditTask", i, clock)
    /\ UNCHANGED <<clock, pc, pending>>

(* ---- TaskItem: the Edit button of the i-th item ---- *)
StartEditTask(i) ==
    /\ pc = "idle"
    /\ i \in 1..Len(tasks)
    /\ task' = tasks[i].value
    /\ isEditing' = TRUE
    /\ currentTaskId' = tasks[i].id
    /\ last' = [op |-> "startEditTask", arg |-> i]
    /\ editPos' = i
    /\ wrote' = FALSE
    /\ replaced' = [on |-> isEditing, target |-> currentTaskId, draft |-> task]
    /\ script' = ScriptStep(script, "startEditTask", i, clock)
    /\ UNCHANGED <<tasks, storage, clock, pc, pending, snap>>

(* updateTask returns early when no task has the edit target's id *)
UpdateTask_guarded ==
    /\ pc = "idle"
    /\ isEditing
    /\ IF \E i \in 1..Len(snap) : snap[i].id = currentTaskId
       THEN /\ tasks' = MapUpdate(snap, currentTaskId, task)
            /\ task' = <<>>
            /\ isEditing' = FALSE
            /\ currentTaskId' = Null
            /\ storage' = saveTasks(tasks')
            /\ wrote' = TRUE
       ELSE /\ UNCHANGED <<tasks, task, isEditing, currentTaskId, storage>>
            /\ wrote' = FALSE
    /\ snap' = Closure(tasks')
    /\ replaced' = NoSession
    /\ last' = [op |-> "updateTask", arg |-> task]
    /\ editPos' = 0
    /\ script' = ScriptStep(script, "updateTask", task, clock)
    /\ UNCHANGED <<clock, pc, pending>>

(* updateTask without its last line, setCurrentTaskId(null) *)
UpdateTask_keepTarget ==
    /\ pc = "idle"
    /\ isEditing
    /\ tasks' = MapUpdate(snap, currentTaskId, task)
    /\ task' = <<>>
    /\ isEditing' = FALSE
    /\ storage' = saveTasks(tasks')
    /\ snap' = Closure(tasks')
    /\ wrote' = TRUE
    /\ replaced' = NoSession
    /\ last' = [op |-> "updateTask", arg |-> task]
    /\ editPos' = 0
    /\ script' = ScriptStep(script, "updateTask", task, clock)
    /\ UNCHANGED <<currentTaskId, clock, pc, pending>>

(* ---- the Update button, rendered when isEditing is true ---- *)
UpdateTask ==
    /\ pc = "idle"
    /\ isEditing
    /\ tasks' = MapUpdate(snap, currentTaskId, task)
    /\ task' = <<>>
    /\ isEditing' = FALSE
    /\ currentTaskId' = Null
    /\ storage' = saveTasks(tasks')
    /\ snap' = Closure(tasks')
    /\ wrote' = TRUE
    /\ replaced' = NoSession
    /\ last' = [op |-> "updateTask", arg |-> task]
    /\ editPos' = 0
    /\ script' = ScriptStep(script, "updateTask", task, clock)
    /\ UNCHANGED <<clock, pc, pending>>

(* deleting the task under edit also ends the edit session *)
RemoveTask_cancel(i) ==
    /\ pc = "idle"
    /\ i \in 1..Len(tasks)
    /\ tasks' = SelectSeq(snap, LAMBDA t : t.id # tasks[i].id)
    /\ storage' = <<JSONstringify(tasks')>>
    /\ snap' = tasks'
    /\ wrote' = TRUE
    /\ replaced' = NoSession
    /\ last' = [op |-> "removeTask", arg |-> tasks[i].id]
    /\ editPos' = 0
    /\ script' = ScriptStep(script, "removeTask", i, clock)
    /\ IF isEditing /\ currentTaskId = tasks[i].id
       THEN task' = <<>> /\ isEditing' = FALSE /\ currentTaskId' = Null
       ELSE UNCHANGED <<task, isEditing, currentTaskId>>
    /\ UNCHANGED <<clock, pc, pending>>

(* ---- TaskItem: the Delete button of the i-th item ---- *)
RemoveTask(i) ==
    /\ pc = "idle"
    /\ i \in 1..Len(tasks)
    /\ tasks' = FilterOut(snap, tasks[i].id)
    /\ storage' = saveTasks(tasks')
    /\ snap' = Closure(tasks')
    /\ wrote' = TRUE
    /\ replaced' = NoSession
    /\ last' = [op |-> "removeTask", arg |-> tasks[i].id]
    /\ editPos' = 0
    /\ script' = ScriptStep(script, "removeTask", i, clock)
    /\ UNCHANGED <<task, isEditing, currentTaskId, clock, pc, pending>>

(* ---- TaskItem: a click on the text of the i-th item; the span and the ---- *)
(* ---- div around it have no onClick                                    ---- *)
ClickTask(i) ==
    /\ pc = "idle"
    /\ i \in 1..Len(tasks)
    /\ last' = [op |-> "clickTask", arg |-> i]
    /\ wrote' = FALSE
    /\ replaced' = NoSession
    /\ script' = OffScript
    /\ UNCHANGED <<task, tasks, isEditing, currentTaskId, storage, clock, pc,
                   pending, editPos, snap>>

(* ---- the page is closed and opened again: a fresh App is rendered ---- *)
Reload ==
    /\ pc = "idle"
    /\ task' = <<>>
    /\ tasks' = <<>>
    /\ isEditing' = FALSE
    /\ currentTaskId' = Null
    /\ pc' = "loadEffect"
    /\ pending' = <<>>
    /\ last' = [op |-> "reload", arg |-> tasks]
    /\ editPos' = 0
    /\ snap' = Closure(tasks')
    /\ wrote' = FALSE
    /\ replaced' = NoSession
    /\ script' = OffScript
    /\ UNCHANGED <<storage, clock>>

(* ---- the wall clock advances by a millisecond ---- *)
Tick ==
    /\ clock < MaxClock
    /\ clock' = clock + 1
    /\ last' = [op |-> "tick", arg |-> last.arg]
    /\ wrote' = FALSE
    /\ replaced' = NoSession
    /\ UNCHANGED <<task, tasks, isEditing, currentTaskId, storage, pc, pending,
                   editPos, snap, script>>

Next ==
    \/ LoadEffect
    \/ SaveEffect
    \/ Render
    \/ \E s \in Texts : SetTask(s)
    \/ AddTask
    \/ \E i \in 1..MaxTasks : StartEditTask(i)
    \/ UpdateTask
    \/ \E i \in 1..MaxTasks : RemoveTask(i)
    \/ \E i \in 1..MaxTasks : ClickTask(i)
    \/ Reload
    \/ Tick

Spec == Init /\ [][Next]_vars

(* ---- the handlers as App hands them to TaskInput: addTask is a prop in ---- *)
(* ---- both modes, whichever button is rendered                          ---- *)
NextHandlers == Next \/ AddTaskInEdit

SpecHandlers == Init /\ [][NextHandlers]_vars

(* ---- the application with the texts of the scenario typed in ---- *)
NextScenario ==
    \/ LoadEffect
    \/ SaveEffect
    \/ Render
    \/ \E s \in ScenarioTexts : SetTask(s)
    \/ AddTask
    \/ \E i \in 1..MaxTasks : StartEditTask(i)
    \/ UpdateTask
    \/ \E i \in 1..MaxTasks : RemoveTask(i)
    \/ \E i \in 1..MaxTasks : ClickTask(i)
    \/ Reload
    \/ Tick

SpecScenario == Init /\ [][NextScenario]_vars

(* ---- localStorage.setItem throws (QuotaExceededError: the origin's quota ---- *)
(* ---- is used up).  saveTasks runs inside an effect and nothing catches;  ---- *)
(* ---- App has no error boundary, so React (16.8 or later, as the hooks    ---- *)
(* ---- require) takes the rendered tree down after the commit: the list    ---- *)
(* ---- was committed, the slot keeps its value, and no handler can be      ---- *)
(* ---- reached any more.                                                   ---- *)
AddTaskWriteFails ==
    /\ pc = "idle"
    /\ ~isEditing
    /\ HasText(task)
    /\ Len(snap) < MaxTasks
    /\ tasks' = AppendTask(snap, clock, task)
    /\ task' = <<>>
    /\ snap' = Closure(tasks')
    /\ wrote' = TRUE
    /\ replaced' = NoSession
    /\ pc' = "unmounted"
    /\ last' = [op |-> "addTask", arg |-> task]
    /\ editPos' = 0
    /\ script' = OffScript
    /\ UNCHANGED <<isEditing, currentTaskId, storage, clock, pending>>

UpdateTaskWriteFails ==
    /\ pc = "idle"
    /\ isEditing
    /\ tasks' = MapUpdate(snap, currentTaskId, task)
    /\ task' = <<>>
    /\ isEditing' = FALSE
    /\ currentTaskId' = Null
    /\ snap' = Closure(tasks')
    /\ wrote' = TRUE
    /\ replaced' = NoSession
    /\ pc' = "unmounted"
    /\ last' = [op |-> "updateTask", arg |-> task]
    /\ editPos' = 0
    /\ script' = OffScript
    /\ UNCHANGED <<storage, clock, pending>>

RemoveTaskWriteFails(i) ==
    /\ pc = "idle"
    /\ i \in 1..Len(tasks)
    /\ tasks' = FilterOut(snap, tasks[i].id)
    /\ snap' = Closure(tasks')
    /\ wrote' = TRUE
    /\ replaced' = NoSession
    /\ pc' = "unmounted"
    /\ last' = [op |-> "removeTask", arg |-> tasks[i].id]
    /\ editPos' = 0
    /\ script' = OffScript
    /\ UNCHANGED <<task, isEditing, currentTaskId, storage, clock, pending>>

(* the write of a mount effect throws: the queued setTasks is never rendered *)
SaveEffectWriteFails ==
    /\ pc = "saveEffect"
    /\ pending' = <<>>
    /\ pc' = "unmounted"
    /\ last' = [op |-> "saveTasks", arg |-> last.arg]
    /\ wrote' = TRUE
    /\ replaced' = NoSession
    /\ UNCHANGED <<task, tasks, isEditing, currentTaskId, storage, clock, editPos,
                   snap, script>>

(* the page that went blank is opened again *)
ReloadUnmounted ==
    /\ pc = "unmounted"
    /\ task' = <<>>
    /\ tasks' = <<>>
    /\ isEditing' = FALSE
    /\ currentTaskId' = Null
    /\ pc' = "loadEffect"
    /\ pending' = <<>>
    /\ last' = [op |-> "reload", arg |-> tasks]
    /\ editPos' = 0
    /\ snap' = Closure(tasks')
    /\ wrote' = FALSE
    /\ replaced' = NoSession
    /\ script' = OffScript
    /\ UNCHANGED <<storage, clock>>

NextWriteFails ==
    \/ Next
    \/ AddTaskWriteFails
    \/ UpdateTaskWriteFails
    \/ \E i \in 1..MaxTasks : RemoveTaskWriteFails(i)
    \/ SaveEffectWriteFails
    \/ ReloadUnmounted

SpecWriteFails == Init /\ [][NextWriteFails]_vars

(* ---- Date.now() reads the system's wall clock, which is not monotonic: ---- *)
(* ---- a time synchronisation or the user sets it back                   ---- *)
ClockSetBack ==
    /\ \E now \in 1..(clock - 1) : clock' = now
    /\ last' = [op |-> "clockSetBack", arg |-> last.arg]
    /\ wrote' = FALSE
    /\ replaced' = NoSession
    /\ UNCHANGED <<task, tasks, isEditing, currentTaskId, storage, pc, pending,
                   editPos, snap, script>>

NextWallClock == Next \/ ClockSetBack

SpecWallClock == Init /\ [][NextWallClock]_vars

TypeOK ==
    /\ task \in Texts \cup ScenarioTexts
    /\ Len(tasks) <= MaxTasks
    /\ \A i \in 1..Len(tasks) :
          tasks[i].id \in 1..MaxClock /\ tasks[i].value \in Texts \cup ScenarioTexts
    /\ isEditing \in BOOLEAN
    /\ currentTaskId \in 0..MaxClock
    /\ clock \in 1..MaxClock
    /\ pc \in {"loadEffect", "saveEffect", "render", "idle", "unmounted"}
    /\ editPos \in 0..MaxTasks
    /\ wrote \in BOOLEAN
    /\ script.step \in -1..8
    /\ replaced.on \in BOOLEAN
    /\ replaced.target \in 0..MaxClock
    /\ replaced.draft \in Texts \cup ScenarioTexts

(***************************************************************************)
(* The claims                                                              *)
(***************************************************************************)
IsBlank(text) == text # <<>> /\ \A i \in 1..Len(text) : text[i] = " "

Serialized(ts) == <<JSONstringify(ts)>>

(* C1: every addTask with a non-empty draft appends exactly one task that   *)
(* carries the draft as its text at the end of the list and empties the     *)
(* draft; an addTask with an empty draft leaves the list as it is.  By      *)
(* induction over the calls the final list is L followed by the non-empty   *)
(* drafts in call order.                                                    *)
C1_AddAppendsInOrder ==
    [][last'.op = "addTask" =>
        IF Len(task) > 0
        THEN /\ Len(tasks') = Len(tasks) + 1
             /\ SubSeq(tasks', 1, Len(tasks)) = tasks
             /\ tasks'[Len(tasks')].value = task
             /\ task' = <<>>
        ELSE tasks' = tasks]_vars

C1_Witness ==
    /\ last.op = "addTask"
    /\ Len(last.arg) > 0
    /\ Len(tasks) >= 2
    /\ tasks[Len(tasks)].value = last.arg
    /\ tasks[1].value # last.arg
    /\ task = <<>>

(* C2: after startEdit(t), draft edits ending with text s, and updateTask,  *)
(* the task at t's position has t's id and text s, every other task is      *)
(* unaltered and the list length is unchanged.                              *)
C2_UpdateAltersOnlyTarget ==
    [][(last'.op = "updateTask" /\ editPos # 0) =>
        /\ Len(tasks') = Len(tasks)
        /\ tasks'[editPos] = [id |-> tasks[editPos].id, value |-> task]
        /\ \A j \in 1..Len(tasks) : j # editPos => tasks'[j] = tasks[j]]_vars

C4_IdsUnique ==
    \A i, j \in 1..Len(tasks) : i # j => tasks[i].id # tasks[j].id

(* C5: after every addTask, updateTask or removeTask that changes the list  *)
(* the slot 'tasks' holds the serialization of exactly the resulting list.  *)
C5_MutationIsPersisted ==
    [][(last'.op \in {"addTask", "updateTask", "removeTask"} /\ tasks' # tasks) =>
        storage' = Serialized(tasks')]_vars

C5_Witness ==
    /\ last.op = "updateTask"
    /\ Len(tasks) >= 1
    /\ \E i \in 1..Len(tasks) : tasks[i].value = last.arg /\ Len(last.arg) > 1
    /\ storage = Serialized(tasks)

(* C6: when a reloaded application has finished hydrating, its list equals  *)
(* the list the closed session ended with, the empty list included.         *)
C6_ReloadRoundTrip ==
    (pc = "idle" /\ last.op = "saveTasks") => tasks = last.arg

C6_Witness ==
    /\ pc = "idle"
    /\ last.op = "saveTasks"
    /\ Len(tasks) >= 2
    /\ tasks = last.arg
    /\ \E i \in 1..Len(tasks) : Len(tasks[i].value) > 1

(* C7: addTask with an empty draft changes nothing. *)
C7_EmptyAddIsNoOp ==
    [][(last'.op = "addTask" /\ task = <<>>) =>
        UNCHANGED <<tasks, task, isEditing, currentTaskId, storage>>]_vars

C7_Witness ==
    /\ last.op = "addTask"
    /\ last.arg = <<>>
    /\ Len(tasks) >= 1
    /\ task = <<>>
    /\ ~isEditing

(* C8 as stated: addTask with an empty or whitespace-only draft never       *)
(* changes the list length.                                                 *)
C8_BlankAddKeepsLength ==
    [][(last'.op = "addTask" /\ (task = <<>> \/ IsBlank(task))) =>
        Len(tasks') = Len(tasks)]_vars

(* C8 amended: addTask with an empty draft never changes the list length;   *)
(* a whitespace-only draft is not empty and is appended like any other      *)
(* text, so the length grows by one.                                        *)
C8_OnlyEmptyAddKeepsLength ==
    [][last'.op = "addTask" =>
        /\ task = <<>> => Len(tasks') = Len(tasks)
        /\ IsBlank(task) => /\ Len(tasks') = Len(tasks) + 1
                            /\ tasks'[Len(tasks')].value = task]_vars

C8_Witness ==
    /\ last.op = "addTask"
    /\ IsBlank(last.arg)
    /\ Len(tasks) >= 1
    /\ IsBlank(tasks[Len(tasks)].value)

(* C9: within a mounted application the mode goes from ADD to EDIT only by  *)
(* startEdit and from EDIT to ADD only by updateTask; addTask, removeTask   *)
(* and draft edits never change the mode.                                   *)
C9_ModeMachine ==
    [][(pc = "idle" /\ pc' = "idle") =>
        /\ (~isEditing /\ isEditing') => last'.op = "startEditTask"
        /\ (isEditing /\ ~isEditing') => last'.op = "updateTask"
        /\ last'.op \in {"addTask", "removeTask", "setTask"} =>
              isEditing' = isEditing]_vars

C9_Witness ==
    /\ pc = "idle"
    /\ last.op = "setTask"
    /\ last.arg = <<>>
    /\ isEditing

(* C10: removeTask(id) during an edit session on id leaves the mode EDIT,   *)
(* the edit target id and the draft as they were, and id names no task of   *)
(* the list any more.                                                       *)
C10_RemoveKeepsStaleSession ==
    [][(last'.op = "removeTask" /\ isEditing /\ currentTaskId = last'.arg) =>
        /\ isEditing'
        /\ currentTaskId' = currentTaskId
        /\ task' = task
        /\ \A j \in 1..Len(tasks') : tasks'[j].id # currentTaskId']_vars

C10_Witness ==
    /\ last.op = "removeTask"
    /\ isEditing
    /\ currentTaskId = last.arg
    /\ Len(task) > 0
    /\ \A j \in 1..Len(tasks) : tasks[j].id # currentTaskId

(* C11: when no task of the list has the edit target's id, updateTask       *)
(* leaves the list exactly as it was.                                       *)
C11_UpdateOfDeletedTargetKeepsList ==
    [][(last'.op = "updateTask"
        /\ \A i \in 1..Len(tasks) : tasks[i].id # currentTaskId) =>
        tasks' = tasks]_vars

C11_Witness ==
    /\ last.op = "updateTask"
    /\ Len(last.arg) > 0
    /\ Len(tasks) >= 1
    /\ \A i \in 1..Len(tasks) : tasks[i].value # last.arg

C13_ScenarioResult ==
    script.step = 8 =>
        /\ Len(tasks) = 1
        /\ tasks[1].value = BuyOatMilk
        /\ tasks[1].id = script.first

(* C14: a click on a listed task marks it as completed: after the click the *)
(* task is in a state distinct from the one it had before.                  *)
C14_ClickCompletesTask ==
    [][last'.op = "clickTask" =>
        tasks'[last'.arg] # tasks[last'.arg]]_vars

(* C15: Update is offered exactly in EDIT mode and Add otherwise: addTask   *)
(* is never invoked in EDIT mode, updateTask never in ADD mode nor with a   *)
(* null edit target, and no step taken in EDIT mode makes the list longer.  *)
C15_OneCommitControl ==
    [][/\ last'.op = "addTask" => ~isEditing
       /\ last'.op = "updateTask" => (isEditing /\ currentTaskId # Null)
       /\ isEditing => Len(tasks') <= Len(tasks)]_vars

C15_Witness ==
    /\ last.op = "updateTask"
    /\ ~isEditing
    /\ currentTaskId = Null
    /\ editPos = 0
    /\ Len(tasks) >= 1
    /\ \E i \in 1..Len(tasks) : tasks[i].value = last.arg

UserOps ==
    {"setTask", "addTask", "startEditTask", "updateTask", "removeTask", "clickTask"}

(* the list a mount hydrates from the slot it finds *)
Hydrated(slot) == IF slot = Absent THEN <<>> ELSE JSONparse(slot[1])

(* C16: hydration happens once per start, before any user operation: the    *)
(* list is empty until the slot is read, the mount ends with the list the   *)
(* slot held at startup (the empty list when the slot was absent), user     *)
(* operations come only after that, and afterwards the list changes only by *)
(* addTask, updateTask and removeTask.  (last.arg is the empty list at the  *)
(* first start and the closed session's list after a reload.)               *)
C16_HydrateOnceAtStartup ==
    /\ [](pc = "loadEffect" => (tasks = <<>> /\ Hydrated(storage) = last.arg))
    /\ []((pc = "idle" /\ last.op = "saveTasks") => (tasks = last.arg /\ pending = <<>>))
    /\ [][/\ last'.op \in UserOps => pc = "idle"
          /\ last'.op = "loadTasks" => (pc = "loadEffect" /\ pc' # "loadEffect")
          /\ (pc' = "loadEffect" /\ pc # "loadEffect") => last'.op = "reload"
          /\ pc = "idle" => (pc' = "idle" \/ last'.op = "reload")
          /\ (pc = "idle" /\ pc' = "idle" /\ tasks' # tasks) =>
                last'.op \in {"addTask", "updateTask", "removeTask"}]_vars

C16_Witness ==
    /\ pc = "idle"
    /\ last.op = "saveTasks"
    /\ wrote
    /\ Len(tasks) >= 1
    /\ tasks = last.arg
    /\ storage = Serialized(tasks)

(* the member names and value kinds of the objects of a stored JSON array *)
RECURSIVE MemberShapes(_, _)
MemberShapes(s, p) ==
    LET k == ReadString(s, p + 1, <<>>)
        v == ReadValue(s, k.next + 1)
        m == [name |-> k.val,
              kind |-> IF s[k.next + 1] = "\"" THEN "string" ELSE "number"]
    IN  IF s[v.next] = ","
        THEN LET rest == MemberShapes(s, v.next + 1)
             IN  [val |-> <<m>> \o rest.val, next |-> rest.next]
        ELSE [val |-> <<m>>, next |-> v.next + 1]

RECURSIVE ElementShapes(_, _)
ElementShapes(s, p) ==
    LET o == MemberShapes(s, p + 1)
    IN  IF s[o.next] = "," THEN <<o.val>> \o ElementShapes(s, o.next + 1)
        ELSE <<o.val>>

SlotShape(s) == IF s[2] = "]" THEN <<>> ELSE ElementShapes(s, 2)

ArrayOfTasks(s, textField) ==
    /\ s[1] = "["
    /\ s[Len(s)] = "]"
    /\ \A e \in 1..Len(SlotShape(s)) :
          LET o == SlotShape(s)[e]
          IN  /\ Len(o) = 2
              /\ {o[1], o[2]} = {[name |-> <<"i", "d">>, kind |-> "number"],
                                 [name |-> textField, kind |-> "string"]}

(* C17 as stated: a written slot holds a JSON array whose elements are      *)
(* objects with exactly a numeric field id and a string field text.         *)
C17_SlotLayoutText ==
    storage # Absent => ArrayOfTasks(storage[1], <<"t", "e", "x", "t">>)

(* C17 amended: a written slot holds a JSON array whose elements are        *)
(* objects with exactly a numeric field id and a string field value; there  *)
(* is no versioning field.                                                  *)
C17_SlotLayoutValue ==
    storage # Absent => ArrayOfTasks(storage[1], <<"v", "a", "l", "u", "e">>)

C17_Witness ==
    /\ storage # Absent
    /\ Len(tasks) >= 2
    /\ Len(SlotShape(storage[1])) = Len(tasks)
    /\ \E i \in 1..Len(tasks) : Len(tasks[i].value) > 1

C19_NoStaleList ==
    /\ [](snap = tasks)
    /\ [][last'.op \in {"addTask", "updateTask", "removeTask"} =>
            \A i \in 1..Len(tasks) :
               \/ last'.op = "removeTask" /\ tasks[i].id = last'.arg
               \/ \E j \in 1..Len(tasks') :
                     /\ tasks'[j].id = tasks[i].id
                     /\ \/ tasks'[j].value = tasks[i].value
                        \/ last'.op = "updateTask" /\ tasks[i].id = currentTaskId]_vars

C19_Witness ==
    /\ last.op = "addTask"
    /\ Len(last.arg) > 0
    /\ Len(tasks) >= 2
    /\ tasks[Len(tasks)].value = last.arg
    /\ snap = tasks
    /\ wrote

(* C20: startEdit(t) sets the draft to t's text, the edit target to t's id  *)
(* and the mode to EDIT; the list and the slot stay as they are and no      *)
(* write to the slot happens.                                               *)
C20_StartEditFrame ==
    [][last'.op = "startEditTask" =>
        /\ task' = tasks[last'.arg].value
        /\ currentTaskId' = tasks[last'.arg].id
        /\ isEditing'
        /\ UNCHANGED <<tasks, storage>>
        /\ ~wrote']_vars

C20_Witness ==
    /\ last.op = "startEditTask"
    /\ isEditing
    /\ ~wrote
    /\ Len(task) > 0
    /\ task = tasks[last.arg].value
    /\ currentTaskId = tasks[last.arg].id

(* C21: every updateTask ends with an empty draft, no edit target and mode  *)
(* ADD, whether or not a task with the target's id is still in the list.    *)
C21_UpdateAlwaysEndsSession ==
    [][last'.op = "updateTask" =>
        /\ task' = <<>>
        /\ currentTaskId' = Null
        /\ ~isEditing']_vars

(* an updateTask with a non-empty draft whose target had been deleted: the  *)
(* draft is in no task, and the session is closed all the same              *)
C21_Witness ==
    /\ last.op = "updateTask"
    /\ Len(last.arg) > 0
    /\ \A i \in 1..Len(tasks) : tasks[i].value # last.arg
    /\ task = <<>>
    /\ currentTaskId = Null
    /\ ~isEditing

(* C22: there is one edit session at most: startEdit(u) called while a      *)
(* session on another task t is open replaces that session: the target      *)
(* becomes u's id and the draft u's text, the mode stays EDIT, and no task  *)
(* of the list changes, so the unsaved draft for t is dropped.              *)
C22_StartEditReplacesSession ==
    [][(last'.op = "startEditTask" /\ isEditing) =>
        /\ isEditing'
        /\ currentTaskId' = tasks[last'.arg].id
        /\ task' = tasks[last'.arg].value
        /\ tasks' = tasks
        /\ replaced' = [on |-> TRUE, target |-> currentTaskId, draft |-> task]]_vars

(* the session replaced was on another task and had an unsaved draft, which *)
(* is now neither the draft nor the text of that task                       *)
C22_Witness ==
    /\ last.op = "startEditTask"
    /\ isEditing
    /\ replaced.on
    /\ replaced.target # currentTaskId
    /\ task = tasks[last.arg].value
    /\ task # replaced.draft
    /\ \E j \in 1..Len(tasks) :
          tasks[j].id = replaced.target /\ tasks[j].value # replaced.draft

(* C23: no task of the list ever has the empty text. *)
C23_NoEmptyText ==
    \A i \in 1..Len(tasks) : tasks[i].value # <<>>

(* C24: a failing persistence write is fire-and-forget: when the write that *)
(* follows a list mutation fails, the slot keeps its value, the mutation    *)
(* stays in the list, and the application goes on taking operations on the  *)
(* mutated list.                                                            *)
C24_FailedWriteIsIgnored ==
    [][(/\ last'.op \in {"addTask", "updateTask", "removeTask"}
        /\ wrote'
        /\ storage' # Serialized(tasks')) =>
        /\ storage' = storage
        /\ last'.op = "addTask" => tasks' = AppendTask(tasks, clock, task)
        /\ last'.op = "updateTask" => tasks' = MapUpdate(tasks, currentTaskId, task)
        /\ last'.op = "removeTask" => tasks' = FilterOut(tasks, last'.arg)
        /\ pc' = "idle"]_vars

(* C25: the ids of the tasks are non-decreasing in list order: of any two   *)
(* tasks the one nearer the front has the smaller or the same id.           *)
C25_IdsNonDecreasing ==
    \A i, j \in 1..Len(tasks) : i < j => tasks[i].id <= tasks[j].id

(* C26: the mode flag and the edit target agree in every reachable state:   *)
(* isEditing is true exactly when currentTaskId is not null.                *)
C26_ModeAgreesWithTarget ==
    isEditing <=> currentTaskId # Null

(* the flag and the target still agree in a session whose target has been  *)
(* deleted while another task is left in the list                           *)
C26_Witness ==
    /\ isEditing
    /\ currentTaskId # Null
    /\ last.op = "removeTask"
    /\ last.arg = currentTaskId
    /\ Len(tasks) >= 1
    /\ \A j \in 1..Len(tasks) : tasks[j].id # currentTaskId

(* C27: startup never damages persisted data: when the slot holds the       *)
(* serialization of a non-empty list L at the start (L is last.arg during   *)
(* the mount), it holds the serialization of L at every step of the mount   *)
(* and when the mount has ended.                                            *)
C27_StartupKeepsSlot ==
    (/\ \/ pc \in {"loadEffect", "saveEffect", "render"}
        \/ pc = "idle" /\ last.op = "saveTasks"
     /\ last.arg # <<>>) =>
        storage = Serialized(last.arg)

(* C28: removeTask called from the delete control of a listed item removes  *)
(* exactly one task: the list gets shorter by one and only the item whose   *)
(* control was used (an item with the id handed over) is gone.              *)
C28_RemoveTakesOne ==
    [][last'.op = "removeTask" =>
        /\ Len(tasks') = Len(tasks) - 1
        /\ \E i \in 1..Len(tasks) :
              /\ tasks[i].id = last'.arg
              /\ tasks' = SubSeq(tasks, 1, i - 1) \o SubSeq(tasks, i + 1, Len(tasks))]_vars

(* the texts of the tasks a slot holds *)
StoredTexts(slot) ==
    IF slot = Absent THEN {}
    ELSE {JSONparse(slot[1])[i].value : i \in 1..Len(JSONparse(slot[1]))}

(* C29: typing in the input changes only the draft: a draft edit sets the   *)
(* draft and leaves the list, the mode, the edit target and the slot as     *)
(* they are, and no write to the slot happens; so a text the slot holds is  *)
(* the text of a task of the list, put there by addTask or updateTask.      *)
C29_DraftEditFrame ==
    /\ [][last'.op = "setTask" =>
            /\ task' = last'.arg
            /\ UNCHANGED <<tasks, isEditing, currentTaskId, storage>>
            /\ ~wrote']_vars
    /\ [](pc = "idle" => StoredTexts(storage) = {tasks[i].value : i \in 1..Len(tasks)})

(* a draft typed during an edit session that is in no task and not in the   *)
(* slot                                                                     *)
C29_Witness ==
    /\ last.op = "setTask"
    /\ task = last.arg
    /\ Len(task) > 1
    /\ isEditing
    /\ ~wrote
    /\ Len(tasks) >= 1
    /\ task \notin StoredTexts(storage)
    /\ storage = Serialized(tasks)

====
